---- MODULE Spec2Model ----
(***************************************************************************)
(* Weather ingestion of homebridge-sun-position: the Tempest streaming     *)
(* client (src/src/tempest.ts) and the part of SunPositionAccessory        *)
(* (src/src/platformAccessory.ts) that listens to it and runs the          *)
(* fallback check.                                                         *)
(*                                                                         *)
(* Node runs one callback at a time, so every action below is one          *)
(* callback run to its next real suspension point (an HTTP request or the  *)
(* return to the event loop).  The ws transports, the HTTP endpoints and   *)
(* the clock are the environment.                                          *)
(*                                                                         *)
(* Time is counted in minutes; lux in units of 0.0001 lux.                 *)
(***************************************************************************)
EXTENDS Integers, Sequences, FiniteSets, TLC

(***************************************************************************)
(* Bounds of the model.                                                    *)
(***************************************************************************)
MaxSockets == 2
MaxLookups == 2
MaxFetches == 1
MaxFailures == 1
MaxBeyond == 1
MaxTime == 12

(***************************************************************************)
(* Program constants.                                                      *)
(***************************************************************************)
maxRetries == 10
InitialReconnectInterval == 30000
maxReconnectInterval == 300000
MsPerSecond == 1000
StaleWindow == 5
LuxFloor == 1
LuxCeiling == 1000000000

Sockets == 1..MaxSockets
ReadyStates == {"CONNECTING", "OPEN", "CLOSING", "CLOSED"}
\* who awaits a connectWebSocket call that is suspended in the device lookup
Callers == {"setup", "timer", "manual", "fallback"}
\* the device ids the station metadata can name; 0 stands for null/undefined
StationDevices == {1}
ForeignDevices == {2}
\* the Tempest device the metadata names once the station's device is replaced
ReplacedDevices == {3}
LuxValues == {0, 90000000}
StartTime == StaleWindow + 1
\* how far the clock moves between two callbacks
TickSteps == {StaleWindow, StaleWindow + 1}

VARIABLES
  ws,                   \* Tempest.ws: the socket the client refers to, 0 = undefined
  isConnecting,         \* Tempest.isConnecting
  reconnectTimer,       \* Tempest.reconnectTimer: "undefined", or a handle "live"/"dead"
  timers,               \* number of armed reconnect timeouts of the client
  reconnectInterval,    \* Tempest.reconnectInterval
  consecutiveFailures,  \* Tempest.consecutiveFailures
  deviceId,             \* Tempest.deviceId, 0 = undefined
  readyState,           \* readyState of every WebSocket the client created
  errorPending,         \* sockets whose handshake was aborted: 'error' is still to be emitted
  lookups,              \* connectWebSocket calls suspended in getTempestDeviceId, per caller
  fetches,              \* number of getStationObservation requests in flight
  lastWebSocketUpdate,  \* SunPositionAccessory.lastWebSocketUpdate
  updateTimer,          \* SunPositionAccessory.updateTimer: a handle "live"/"dead"
  weatherFallbackTimer, \* SunPositionAccessory.weatherFallbackTimer: "live"/"dead"
  initialCheck,         \* the one-off setTimeout(fallbackCheck, 10000) is still to fire
  data,                 \* the payload handed to new Observations(data)
  metrics,              \* <<>>, or <<m>> with m what the accessors of that object return
  now                   \* Date.now()

vars == <<ws, isConnecting, reconnectTimer, timers, reconnectInterval,
          consecutiveFailures, deviceId, readyState, errorPending, lookups,
          fetches, lastWebSocketUpdate, updateTimer, weatherFallbackTimer,
          initialCheck, data, metrics, now>>

clientVars == <<ws, isConnecting, reconnectTimer, timers, reconnectInterval,
                consecutiveFailures, deviceId>>

(***************************************************************************)
(* Inbound frames.  parse = FALSE is a frame JSON.parse rejects.  obs is   *)
(* "none" (no obs member), "empty" ([]) or "rec" (one positional record,   *)
(* whose brightness at index 9 is lux).                                    *)
(***************************************************************************)
FrameTypes == {"obs_st", "obs_sky", "ack"}
FrameDevices == {0} \cup StationDevices \cup ForeignDevices
NoFrame == [parse |-> FALSE, type |-> "", device_id |-> 0, obs |-> "none", lux |-> 0]
AllFrames ==
  [parse : {TRUE}, type : FrameTypes, device_id : FrameDevices,
   obs : {"none", "empty"}, lux : {0}]
  \cup [parse : {TRUE}, type : FrameTypes, device_id : FrameDevices,
         obs : {"rec"}, lux : LuxValues \ {0}]
\* how many members of f differ from an obs_st record of a station device
Oddities(f) ==
  (IF f.type = "obs_st" THEN 0 ELSE 1)
  + (IF f.device_id \in StationDevices THEN 0 ELSE 1)
  + (IF f.obs = "rec" THEN 0 ELSE 1)
\* the frames the model delivers: the unparseable one, and those with at
\* most one such difference
Frames == {NoFrame} \cup {f \in AllFrames : Oddities(f) <= 1}

(***************************************************************************)
(* The state as one record, so that a handler is a function from state to  *)
(* state.  out collects what the handler emits, sends, logs and returns,   *)
(* in order; ok turns FALSE when it would exceed a bound of the model.     *)
(***************************************************************************)
W ==
  [ws |-> ws, isConnecting |-> isConnecting, reconnectTimer |-> reconnectTimer,
   timers |-> timers, reconnectInterval |-> reconnectInterval,
   consecutiveFailures |-> consecutiveFailures, deviceId |-> deviceId,
   readyState |-> readyState, errorPending |-> errorPending,
   lookups |-> lookups, fetches |-> fetches,
   lastWebSocketUpdate |-> lastWebSocketUpdate,
   updateTimer |-> updateTimer, weatherFallbackTimer |-> weatherFallbackTimer,
   initialCheck |-> initialCheck,
   out |-> <<>>, ok |-> TRUE]

Commit(w) ==
  /\ w.ok
  /\ ws' = w.ws
  /\ isConnecting' = w.isConnecting
  /\ reconnectTimer' = w.reconnectTimer
  /\ timers' = w.timers
  /\ reconnectInterval' = w.reconnectInterval
  /\ consecutiveFailures' = w.consecutiveFailures
  /\ deviceId' = w.deviceId
  /\ readyState' = w.readyState
  /\ errorPending' = w.errorPending
  /\ lookups' = w.lookups
  /\ fetches' = w.fetches
  /\ lastWebSocketUpdate' = w.lastWebSocketUpdate
  /\ updateTimer' = w.updateTimer
  /\ weatherFallbackTimer' = w.weatherFallbackTimer
  /\ initialCheck' = w.initialCheck
  /\ data' = data
  /\ metrics' = metrics
  /\ now' = now

\* an entry of out: an event emitted to the listeners, a network action,
\* a log line or a return value; arg is the socket it concerns or the value
\* written, 0 if none
Emit(w, e, arg) == [w EXCEPT !.out = Append(@, [e |-> e, arg |-> arg])]

Did(o, e) == \E i \in 1..Len(o) : o[i].e = e
Count(o, e) == Cardinality({i \in 1..Len(o) : o[i].e = e})

Inc(bag, k) == [bag EXCEPT ![k] = @ + 1]
Dec(bag, k) == [bag EXCEPT ![k] = @ - 1]
Total(bag) == bag["setup"] + bag["timer"] + bag["manual"] + bag["fallback"]

(***************************************************************************)
(* Observations (tempest.ts).  A payload is                                *)
(*   kind  "http" (obs[0] is an object) or "ws" (obs[0] is an array),      *)
(*   obs   "empty" (obs: []) or "rec" (obs has a first element),           *)
(*   len   the number of positions of a stream record; for a snapshot 0    *)
(*         is the object {} and RecordLength the object with every field,  *)
(* and the numbers it encodes, as integers: temperature in 0.001 C,        *)
(* brightness in 0.0001 lux, pressure in 0.01 hPa, voltage in 0.001 V.     *)
(* A JavaScript value is a record: a number, undefined or NaN.             *)
(***************************************************************************)
RecordLength == 17
\* stream records that end before the battery voltage, before the shared
\* fields, and complete ones
RecordLengths == {0, 12, RecordLength}

Num(v) == [t |-> "number", v |-> v]
Undefined == [t |-> "undefined", v |-> 0]
NaN == [t |-> "NaN", v |-> 0]
IsNumber(x) == x.t = "number"

Temperatures == {-1235, 21004}
Brightness == {-1, 0, 90000000, 1500000000}
UvValues == {0, 3}
Gusts == {250, 700}
PrecipitationTypes == {0, 1, 2}
StrikeCounts == {0, 2}
Voltages == {2000, 2406, 2500, 3300, 4000}

Payloads ==
  {o \in [kind : {"http", "ws"}, obs : {"empty", "rec"}, len : RecordLengths,
          temp : Temperatures, lux : Brightness, hum : {40}, pres : {99870},
          wind : {250}, dir : {180}, uv : UvValues, solar : {500},
          gust : Gusts, rain : {0}, ptype : PrecipitationTypes,
          ldist : {10}, lcount : StrikeCounts, volt : Voltages] :
     /\ o.kind = "http" => o.len \in {0, RecordLength}
     /\ o.obs = "empty" => o.len = 0}

NoPayload ==
  [kind |-> "ws", obs |-> "empty", len |-> 0, temp |-> 21004, lux |-> 0,
   hum |-> 40, pres |-> 99870, wind |-> 250, dir |-> 180, uv |-> 0,
   solar |-> 500, gust |-> 250, rain |-> 0, ptype |-> 0, ldist |-> 10,
   lcount |-> 0, volt |-> 3300]

\* the constructor: this.observation is set for a snapshot with a first
\* element, this.wsObservation for a stream payload with one
hasObservation(o) == o.kind = "http" /\ o.obs = "rec"
hasWsObservation(o) == o.kind = "ws" /\ o.obs = "rec"

\* this.observation.<field>: undefined when the object lacks the field
Named(o, v) == IF o.len > 0 THEN Num(v) ELSE Undefined
\* this.wsObservation.obs[0][i]: undefined beyond the end of the array
At(o, i, v) == IF i < o.len THEN Num(v) ELSE Undefined

\* Math.round(temp * 100) / 100, in 0.01 C for temp in 0.001 C; halves go up
Round2(x) == IF IsNumber(x) THEN Num((x.v + 5) \div 10) ELSE NaN
\* x || 0
OrZero(x) == IF IsNumber(x) /\ x.v # 0 THEN x ELSE Num(0)
\* x > n, x < n, x <= n and x === n are false unless x is a number
Gt(x, n) == IsNumber(x) /\ x.v > n
Lt(x, n) == IsNumber(x) /\ x.v < n
Le(x, n) == IsNumber(x) /\ x.v <= n
StrictEq(x, n) == IsNumber(x) /\ x.v = n

DefaultTemperature == 2000
DefaultHumidity == 50
DefaultPressure == 101325
DefaultVoltage == 3300

airTemperature(o) ==
  IF hasObservation(o) THEN Round2(Named(o, o.temp))
  ELSE IF hasWsObservation(o) THEN Round2(At(o, 7, o.temp))
  ELSE Num(DefaultTemperature)

lux(o) ==
  IF hasObservation(o) THEN Named(o, o.lux)
  ELSE IF hasWsObservation(o) THEN At(o, 9, o.lux)
  ELSE Num(LuxFloor)

\* the humidity accessor reading the brightness position of a stream record
humidity_atBrightness(o) ==
  IF hasObservation(o) THEN Named(o, o.hum)
  ELSE IF hasWsObservation(o) THEN At(o, 9, o.lux)
  ELSE Num(DefaultHumidity)

humidity(o) ==
  IF hasObservation(o) THEN Named(o, o.hum)
  ELSE IF hasWsObservation(o) THEN At(o, 8, o.hum)
  ELSE Num(DefaultHumidity)

pressure(o) ==
  IF hasObservation(o) THEN Named(o, o.pres)
  ELSE IF hasWsObservation(o) THEN At(o, 6, o.pres)
  ELSE Num(DefaultPressure)

uvIndex(o) ==
  IF hasObservation(o) THEN OrZero(Named(o, o.uv))
  ELSE IF hasWsObservation(o) THEN At(o, 10, o.uv)
  ELSE Num(0)

solarRadiation(o) ==
  IF hasObservation(o) THEN OrZero(Named(o, o.solar))
  ELSE IF hasWsObservation(o) THEN At(o, 11, o.solar)
  ELSE Num(0)

windSpeed(o) ==
  IF hasObservation(o) THEN Named(o, o.wind)
  ELSE IF hasWsObservation(o) THEN At(o, 2, o.wind)
  ELSE Num(0)

windDirection(o) ==
  IF hasObservation(o) THEN Named(o, o.dir)
  ELSE IF hasWsObservation(o) THEN At(o, 4, o.dir)
  ELSE Num(0)

windGust(o) == IF hasWsObservation(o) THEN At(o, 3, o.gust) ELSE windSpeed(o)
rainAccumulated(o) == IF hasWsObservation(o) THEN At(o, 12, o.rain) ELSE Num(0)
precipitationType(o) == IF hasWsObservation(o) THEN At(o, 13, o.ptype) ELSE Num(0)
lightningDistance(o) == IF hasWsObservation(o) THEN At(o, 14, o.ldist) ELSE Num(0)
lightningCount(o) == IF hasWsObservation(o) THEN At(o, 15, o.lcount) ELSE Num(0)
batteryVoltage(o) == IF hasWsObservation(o) THEN At(o, 16, o.volt) ELSE Num(DefaultVoltage)

isRaining(o) == StrictEq(precipitationType(o), 1) \/ Gt(rainAccumulated(o), 0)
isHailing(o) == StrictEq(precipitationType(o), 2)
isLightningDetected(o) ==
  Gt(lightningCount(o), 0) /\ Gt(lightningDistance(o), 0) /\ Le(lightningDistance(o), 50)

minVoltage == 2400
maxVoltage == 3600
Max(a, b) == IF a > b THEN a ELSE b
Min(a, b) == IF a <= b THEN a ELSE b
\* Math.round(p / (maxVoltage - minVoltage)); halves go up
MathRound(p) ==
  (2 * p + (maxVoltage - minVoltage)) \div (2 * (maxVoltage - minVoltage))

\* the percentage is (voltage - minVoltage) * 100 / (maxVoltage - minVoltage);
\* Math.min, Math.max and Math.round of NaN are NaN
batteryLevel(o) ==
  LET voltage == batteryVoltage(o)
  IN IF IsNumber(voltage)
       THEN Num(MathRound(Max(0, Min(100 * (maxVoltage - minVoltage),
                                      (voltage.v - minVoltage) * 100))))
       ELSE NaN

isLowBattery(o) == Lt(batteryLevel(o), 20)

\* the snapshot a station observation request resolves with, brightness v
HttpObservation(v) ==
  [NoPayload EXCEPT !.kind = "http", !.obs = "rec", !.len = RecordLength, !.lux = v]
\* the payload of an inbound frame: its obs member, complete when present
WsObservation(f) ==
  [NoPayload EXCEPT !.kind = "ws", !.obs = IF f.obs = "rec" THEN "rec" ELSE "empty",
                    !.len = IF f.obs = "rec" THEN RecordLength ELSE 0, !.lux = f.lux]

\* tempestData.lux as updateWeatherData compares and writes it, for a
\* payload whose brightness is a number
Lux(o) == lux(o).v

\* what every accessor of new Observations(o) returns
DerivedMetrics(o) ==
  [airTemperature |-> airTemperature(o), lux |-> lux(o), humidity |-> humidity(o),
   pressure |-> pressure(o), uvIndex |-> uvIndex(o),
   solarRadiation |-> solarRadiation(o), windSpeed |-> windSpeed(o),
   windDirection |-> windDirection(o), windGust |-> windGust(o),
   rainAccumulated |-> rainAccumulated(o),
   precipitationType |-> precipitationType(o),
   lightningDistance |-> lightningDistance(o),
   lightningCount |-> lightningCount(o), batteryVoltage |-> batteryVoltage(o),
   isRaining |-> isRaining(o), isHailing |-> isHailing(o),
   isLightningDetected |-> isLightningDetected(o),
   batteryLevel |-> batteryLevel(o), isLowBattery |-> isLowBattery(o)]

(***************************************************************************)
(* The ws library, as far as the client uses it.                           *)
(***************************************************************************)
\* new WebSocket(url): the lowest socket slot that is closed for good
FreeSockets(w) == {s \in Sockets : w.readyState[s] = "CLOSED" /\ ~w.errorPending[s]}

NewWebSocket(w) ==
  IF FreeSockets(w) = {} THEN [w EXCEPT !.ok = FALSE]
  ELSE LET s == CHOOSE s \in FreeSockets(w) : \A t \in FreeSockets(w) : s <= t
       IN Emit([w EXCEPT !.ws = s, !.readyState[s] = "CONNECTING"], "new_socket", s)

\* WebSocket.close(): a socket still connecting has its handshake aborted,
\* which emits 'error' and then 'close'; an open socket starts the closing
\* handshake and emits 'close' when it ends
WsLibClose(w, s) ==
  LET w1 == Emit(w, "ws_close", s)
  IN IF w.readyState[s] = "CONNECTING"
       THEN [w1 EXCEPT !.readyState[s] = "CLOSING", !.errorPending[s] = TRUE]
     ELSE IF w.readyState[s] = "OPEN"
       THEN [w1 EXCEPT !.readyState[s] = "CLOSING"]
     ELSE w1

\* clearTimeout(handle): a handle that fired or was cleared stays a handle
ClearTimeout(w) ==
  IF w.reconnectTimer = "live"
    THEN [w EXCEPT !.reconnectTimer = "dead", !.timers = @ - 1]
    ELSE w

\* this.reconnectTimer = setTimeout(..., delay); the entry keeps the delay
\* before jitter
SetTimeout(w, delay) ==
  Emit([w EXCEPT !.reconnectTimer = "live", !.timers = @ + 1], "set_timer", delay)

(***************************************************************************)
(* SunPositionAccessory: the listeners it registers on the client, and its *)
(* requests to the REST endpoint.                                          *)
(***************************************************************************)
\* tempest.getStationObservation(stationId) up to its await: one GET
getStationObservation(w) ==
  IF w.fetches >= MaxFetches THEN [w EXCEPT !.ok = FALSE]
  ELSE Emit([w EXCEPT !.fetches = @ + 1], "fetch", 0)

\* updateWeatherData that forgets the freshness timestamp
updateWeatherData_noStamp(w, o, source, t) ==
  LET l0 == Lux(o)
      l1 == IF l0 = 0 THEN LuxFloor ELSE l0
      l2 == IF l1 > LuxCeiling THEN LuxCeiling ELSE l1
  IN Emit(w, "updateCharacteristic", l2)

\* updateWeatherData that stamps the freshness timestamp for either source
updateWeatherData_stampsAlways(w, o, source, t) ==
  LET l0 == Lux(o)
      l1 == IF l0 = 0 THEN LuxFloor ELSE l0
      l2 == IF l1 > LuxCeiling THEN LuxCeiling ELSE l1
      w1 == [w EXCEPT !.lastWebSocketUpdate = t]
  IN Emit(w1, "updateCharacteristic", l2)

updateWeatherData(w, o, source, t) ==
  LET l0 == Lux(o)
      l1 == IF l0 = 0 THEN LuxFloor ELSE l0
      l2 == IF l1 > LuxCeiling THEN LuxCeiling ELSE l1
      w1 == IF source = "websocket" THEN [w EXCEPT !.lastWebSocketUpdate = t] ELSE w
  IN Emit(w1, "updateCharacteristic", l2)

getInitialWeatherData(w) == getStationObservation(w)

\* this.emit(event): the event, then the accessory's listener for it
emit(w, event, o, t) ==
  LET w1 == Emit(w, event, 0)
  IN IF event = "observation" THEN updateWeatherData(w1, o, "websocket", t)
     ELSE IF event = "connected" THEN getInitialWeatherData(w1)
     ELSE w1

(***************************************************************************)
(* Tempest (tempest.ts).                                                   *)
(***************************************************************************)
\* isConnected that takes any socket the client refers to for an open one
isConnected_hasSocket(w) == w.ws # 0

\* isConnected comparing readyState with a value it never has
isConnected_never(w) == w.ws # 0 /\ w.readyState[w.ws] = "open"

isConnected(w) == w.ws # 0 /\ w.readyState[w.ws] = "OPEN"

startListening(w) ==
  IF w.ws = 0 \/ w.deviceId = 0 THEN w
  ELSE IF w.readyState[w.ws] = "OPEN" THEN Emit(w, "listen_start", w.ws)
  ELSE IF w.readyState[w.ws] = "CONNECTING" THEN Emit(w, "throw", w.ws)
  ELSE w

sendStopListening(w) ==
  IF w.ws = 0 \/ w.deviceId = 0 \/ w.readyState[w.ws] # "OPEN" THEN w
  ELSE Emit(w, "listen_stop", w.ws)

\* Delays are counted in 1/DelayUnit seconds, which holds
\* 30 * 1.5^n exactly for every n up to maxRetries + 1.
DelayUnit == 2 ^ (maxRetries + 1)

\* Math.pow(1.5, n), in 1/DelayUnit
Pow15(n) == (3 ^ n) * (2 ^ (maxRetries + 1 - n))


\* baseDelay without the ceiling on the interval
baseDelay_uncapped(interval, n) == (interval \div MsPerSecond) * Pow15(n)

\* baseDelay of scheduleReconnect for the interval and failure count given
baseDelay(interval, n) ==
  Min((interval \div MsPerSecond) * Pow15(n),
      (maxReconnectInterval \div MsPerSecond) * DelayUnit)

\* scheduleReconnect that retries for ever
scheduleReconnect_noCeiling(w) ==
  LET w1 == IF w.reconnectTimer # "undefined" THEN ClearTimeout(w) ELSE w
      w2 == [w1 EXCEPT !.consecutiveFailures = @ + 1]
  IN SetTimeout(w2, baseDelay(w2.reconnectInterval, Min(w2.consecutiveFailures, maxRetries)))

\* scheduleReconnect that sets its timer without clearing the previous one
scheduleReconnect_noClear(w) ==
  LET w2 == [w EXCEPT !.consecutiveFailures = @ + 1]
  IN IF w2.consecutiveFailures >= maxRetries
       THEN Emit(w2, "log_max_retries", 0)
       ELSE SetTimeout(w2, baseDelay(w2.reconnectInterval, w2.consecutiveFailures))

scheduleReconnect(w) ==
  LET w1 == IF w.reconnectTimer # "undefined" THEN ClearTimeout(w) ELSE w
      w2 == [w1 EXCEPT !.consecutiveFailures = @ + 1]
  IN IF w2.consecutiveFailures >= maxRetries
       THEN Emit(w2, "log_max_retries", 0)
       ELSE SetTimeout(w2, baseDelay(w2.reconnectInterval, w2.consecutiveFailures))

\* an 'open' listener that keeps the failure counter
onOpen_keepsCounter(w, s, t) ==
  LET w1 == [w EXCEPT !.readyState[s] = "OPEN", !.isConnecting = FALSE,
                      !.reconnectInterval = InitialReconnectInterval]
  IN startListening(emit(w1, "connected", NoFrame, t))

\* the 'open' listener of socket s
onOpen(w, s, t) ==
  LET w1 == [w EXCEPT !.readyState[s] = "OPEN", !.isConnecting = FALSE,
                      !.consecutiveFailures = 0,
                      !.reconnectInterval = InitialReconnectInterval]
  IN startListening(emit(w1, "connected", NoFrame, t))

\* the 'error' listener of socket s; the library has left OPEN/CONNECTING
\* before it emits 'error'
\* err is what the error's message says: an ordinary transport failure, or
\* an over-quota (429) response to the handshake
onError(w, s, t, err) ==
  LET w1 == [w EXCEPT !.readyState[s] = "CLOSING", !.errorPending[s] = FALSE,
                      !.isConnecting = FALSE]
      w2 == Emit(w1, "log_ws_error", err)
  IN scheduleReconnect(emit(sendStopListening(w2), "error", NoFrame, t))

\* the 'close' listener of socket s
onClose(w, s, t) ==
  LET w1 == [w EXCEPT !.readyState[s] = "CLOSED", !.isConnecting = FALSE]
  IN scheduleReconnect(emit(sendStopListening(w1), "disconnected", NoFrame, t))

\* connectWebSocket from "this.isConnecting = true" on
openSocket(w) == NewWebSocket([w EXCEPT !.isConnecting = TRUE])

\* connectWebSocket whose guard forgets the open connection
connectWebSocket_guardConnectingOnly(w, caller) ==
  IF w.isConnecting THEN w
  ELSE IF w.deviceId = 0
    THEN IF Total(w.lookups) >= MaxLookups THEN [w EXCEPT !.ok = FALSE]
         ELSE Emit([w EXCEPT !.lookups = Inc(@, caller)], "lookup", 0)
  ELSE openSocket(w)

\* connectWebSocket up to its first suspension
connectWebSocket(w, caller) ==
  IF w.isConnecting \/ isConnected(w) THEN w
  ELSE IF w.deviceId = 0
    THEN IF Total(w.lookups) >= MaxLookups THEN [w EXCEPT !.ok = FALSE]
         ELSE Emit([w EXCEPT !.lookups = Inc(@, caller)], "lookup", 0)
  ELSE openSocket(w)

Suspended(w, w2) == w2.lookups # w.lookups

\* handleWebSocketMessage that reports a frame it cannot parse as 'error'
handleWebSocketMessage_emitsParseError(w, f, t) ==
  IF ~f.parse THEN emit(w, "error", NoFrame, t)
  ELSE IF f.type = "obs_st" /\ f.obs # "none" /\ f.device_id = w.deviceId /\ f.device_id # 0
    THEN emit(w, "observation", WsObservation(f), t)
  ELSE w

\* handleWebSocketMessage without the device filter
handleWebSocketMessage_anyDevice(w, f, t) ==
  IF ~f.parse THEN Emit(w, "log_parse_error", 0)
  ELSE IF f.type = "obs_st" /\ f.obs # "none"
    THEN emit(w, "observation", WsObservation(f), t)
  ELSE w

handleWebSocketMessage(w, f, t) ==
  IF ~f.parse THEN Emit(w, "log_parse_error", 0)
  ELSE IF f.type = "obs_st" /\ f.obs # "none" /\ f.device_id = w.deviceId /\ f.device_id # 0
    THEN emit(w, "observation", WsObservation(f), t)
  ELSE w

reconnectIfNeeded(w, caller) ==
  IF isConnected(w) THEN Emit(w, "return_true", 0)
  ELSE IF w.isConnecting THEN Emit(w, "return_false", 0)
  ELSE LET w2 == connectWebSocket(w, caller)
       IN IF Suspended(w, w2) THEN w2 ELSE Emit(w2, "return_true", 0)

\* disconnect that also clears the failure counter
disconnect_resetsCounter(w) ==
  LET w1 == IF w.reconnectTimer # "undefined"
              THEN [ClearTimeout(w) EXCEPT !.reconnectTimer = "undefined"]
              ELSE w
      w2 == [w1 EXCEPT !.consecutiveFailures = 0]
  IN IF w2.ws # 0
       THEN [WsLibClose(sendStopListening(w2), w2.ws) EXCEPT !.ws = 0]
       ELSE w2

disconnect(w) ==
  LET w1 == IF w.reconnectTimer # "undefined"
              THEN [ClearTimeout(w) EXCEPT !.reconnectTimer = "undefined"]
              ELSE w
  IN IF w1.ws # 0
       THEN [WsLibClose(sendStopListening(w1), w1.ws) EXCEPT !.ws = 0]
       ELSE w1

\* fallbackCheck that counts an observation exactly five minutes old as stale
fallbackCheck_staleAtWindow(w, t) ==
  LET shouldUseAPI == ~isConnected(w) \/ t - w.lastWebSocketUpdate >= StaleWindow
  IN IF ~shouldUseAPI THEN w
     ELSE IF ~isConnected(w)
       THEN LET w2 == reconnectIfNeeded(w, "fallback")
            IN IF Suspended(w, w2) THEN w2 ELSE getStationObservation(w2)
     ELSE getStationObservation(w)

\* fallbackCheck that asks for a reconnect whenever it uses the API
fallbackCheck_alwaysReconnect(w, t) ==
  LET shouldUseAPI == ~isConnected(w) \/ t - w.lastWebSocketUpdate > StaleWindow
  IN IF ~shouldUseAPI THEN w
     ELSE LET w2 == reconnectIfNeeded(w, "fallback")
          IN IF Suspended(w, w2) THEN w2 ELSE getStationObservation(w2)

\* fallbackCheck of startWeatherDataFallback, up to its first suspension
fallbackCheck(w, t) ==
  LET shouldUseAPI == ~isConnected(w) \/ t - w.lastWebSocketUpdate > StaleWindow
  IN IF ~shouldUseAPI THEN w
     ELSE IF ~isConnected(w)
       THEN LET w2 == reconnectIfNeeded(w, "fallback")
            IN IF Suspended(w, w2) THEN w2 ELSE getStationObservation(w2)
     ELSE getStationObservation(w)

\* a caller that requests the snapshot again when the request failed
fetchDone_retries(w, good, v, t) ==
  LET w1 == [w EXCEPT !.fetches = @ - 1]
  IN IF good THEN updateWeatherData(w1, HttpObservation(v), "api", t)
     ELSE getStationObservation(Emit(w1, "log_fetch_failed", 0))

\* await getStationObservation settles in getInitialWeatherData or in
\* fallbackCheck: the result is applied, or the failure is logged
fetchDone(w, good, v, t) ==
  LET w1 == [w EXCEPT !.fetches = @ - 1]
  IN IF good THEN updateWeatherData(w1, HttpObservation(v), "api", t)
     ELSE Emit(w1, "log_fetch_failed", 0)

\* what the awaiting caller does once connectWebSocket has settled
afterConnect(w, caller, threw) ==
  IF caller = "setup" \/ caller = "timer"
    THEN IF threw THEN Emit(w, "log_connect_failed", 0) ELSE w
  ELSE LET w1 == Emit(w, IF threw THEN "return_false" ELSE "return_true", 0)
       IN IF caller = "fallback" THEN getStationObservation(w1) ELSE w1

\* connectWebSocket that schedules a reconnect when the lookup fails
resumeConnect_schedulesOnFailure(w, caller, result) ==
  LET w1 == [w EXCEPT !.lookups = Dec(@, caller)]
  IN IF result = 0
       THEN afterConnect(scheduleReconnect(Emit(w1, "throw", 0)), caller, TRUE)
       ELSE afterConnect(openSocket([w1 EXCEPT !.deviceId = result]), caller, FALSE)

\* connectWebSocket resumed with the result of getTempestDeviceId
resumeConnect(w, caller, result) ==
  LET w1 == [w EXCEPT !.lookups = Dec(@, caller)]
  IN IF result = 0
       THEN afterConnect(Emit(w1, "throw", 0), caller, TRUE)
       ELSE afterConnect(openSocket([w1 EXCEPT !.deviceId = result]), caller, FALSE)

\* updatePosition that schedules the next run only when the calculation
\* succeeded
updatePosition_givesUp(w, threw) ==
  IF threw THEN Emit(w, "log_position_failed", 0)
  ELSE Emit([Emit(w, "updateValue", 0) EXCEPT !.updateTimer = "live"], "set_update_timer", 0)

\* updatePosition: the characteristics are written, or the failure is
\* logged; then the next run is scheduled
updatePosition(w, threw) ==
  LET w1 == IF threw THEN Emit(w, "log_position_failed", 0) ELSE Emit(w, "updateValue", 0)
  IN Emit([w1 EXCEPT !.updateTimer = "live"], "set_update_timer", 0)

\* destroy of the accessory
destroy(w) ==
  disconnect([w EXCEPT !.updateTimer = "dead", !.weatherFallbackTimer = "dead"])

(***************************************************************************)
(* Initial state: the accessory has been constructed.  setupTempestWebSocket*)
(* has registered the listeners and called connectWebSocket, which is      *)
(* suspended in the device lookup.                                         *)
(***************************************************************************)
InitConnection ==
  /\ ws = 0
  /\ isConnecting = FALSE
  /\ reconnectTimer = "undefined"
  /\ timers = 0
  /\ reconnectInterval = InitialReconnectInterval
  /\ consecutiveFailures = 0
  /\ deviceId = 0
  /\ readyState = [s \in Sockets |-> "CLOSED"]
  /\ errorPending = [s \in Sockets |-> FALSE]
  /\ lookups = [c \in Callers |-> IF c = "setup" THEN 1 ELSE 0]
  /\ fetches = 0
  /\ lastWebSocketUpdate = 0
  /\ updateTimer = "live"
  /\ weatherFallbackTimer = "live"
  /\ initialCheck = TRUE
  /\ now = StartTime

\* no payload has been received yet
Init ==
  /\ InitConnection
  /\ data = NoPayload
  /\ metrics = <<>>

(***************************************************************************)
(* Actions.                                                                *)
(***************************************************************************)
\* a caller of the public API calls connectWebSocket
Connect == Commit(connectWebSocket(W, "setup"))

\* a caller of the public API calls reconnectIfNeeded
ReconnectIfNeeded ==
  Commit(reconnectIfNeeded(W, "manual"))

\* a caller of the public API (the accessory's destroy) calls disconnect
Disconnect == Commit(disconnect(W))

\* the station metadata request of a suspended connectWebSocket settles
LookupDone ==
  \E c \in Callers, r \in {0} \cup StationDevices :
    /\ lookups[c] > 0
    /\ Commit(resumeConnect(W, c, r))

WsOpen ==
  \E s \in Sockets :
    /\ readyState[s] = "CONNECTING"
    /\ Commit(onOpen(W, s, now))

\* a frame arrives on an open socket
WsMessage ==
  \E f \in Frames :
    /\ \E s \in Sockets : readyState[s] = "OPEN"
    /\ Commit(handleWebSocketMessage(W, f, now))

ErrorKinds == {"transport", "rate_limit"}

\* 'error' can be emitted on s: a transport failure, or an aborted handshake
CanError(s) == readyState[s] \in {"CONNECTING", "OPEN"} \/ errorPending[s]

\* 'close' can be emitted on s: it ends a closing socket, or the peer closes
\* an open one
CanClose(s) == readyState[s] = "OPEN" \/ (readyState[s] = "CLOSING" /\ ~errorPending[s])

\* the model follows the failure counter up to cap
WsErrorUpTo(cap) ==
  \E s \in Sockets :
    /\ CanError(s)
    /\ consecutiveFailures < cap
    /\ \E err \in ErrorKinds : Commit(onError(W, s, now, err))

WsCloseUpTo(cap) ==
  \E s \in Sockets :
    /\ CanClose(s)
    /\ consecutiveFailures < cap
    /\ Commit(onClose(W, s, now))

WsError == WsErrorUpTo(MaxFailures)

WsClose == WsCloseUpTo(MaxFailures)

\* an armed reconnect timeout fires
ReconnectTimerFires ==
  /\ timers > 0
  /\ LET w1 == [W EXCEPT !.timers = @ - 1,
                         !.reconnectTimer = IF @ = "live" /\ timers = 1 THEN "dead" ELSE @]
     IN Commit(connectWebSocket(w1, "timer"))

\* the fallback interval fires
FallbackCheck ==
  /\ weatherFallbackTimer = "live"
  /\ Commit(fallbackCheck(W, now))

\* a station observation request settles
FetchDone ==
  \E good \in BOOLEAN, v \in LuxValues :
    /\ fetches > 0
    /\ good \/ v = 0
    /\ Commit(fetchDone(W, good, v, now))

Tick ==
  \E d \in TickSteps :
    /\ now + d <= MaxTime
    /\ now' = now + d
    /\ UNCHANGED <<ws, isConnecting, reconnectTimer, timers, reconnectInterval,
                   consecutiveFailures, deviceId, readyState, errorPending,
                   lookups, fetches, lastWebSocketUpdate, updateTimer,
                   weatherFallbackTimer, initialCheck, data, metrics>>

Next ==
  \/ Connect
  \/ ReconnectIfNeeded
  \/ Disconnect
  \/ LookupDone
  \/ WsOpen
  \/ WsMessage
  \/ WsError
  \/ WsClose
  \/ ReconnectTimerFires
  \/ FallbackCheck
  \/ FetchDone
  \/ Tick

Spec == Init /\ [][Next]_vars

(***************************************************************************)
(* The same client followed up to and beyond the retry ceiling.  No frame  *)
(* arrives and the clock stands still: neither is read by the connection   *)
(* life cycle.                                                             *)
(***************************************************************************)
RetryCap == maxRetries + MaxBeyond

RetryWsError == WsErrorUpTo(RetryCap)

RetryWsClose == WsCloseUpTo(RetryCap)

NextRetry ==
  \/ Connect
  \/ ReconnectIfNeeded
  \/ Disconnect
  \/ LookupDone
  \/ WsOpen
  \/ RetryWsError
  \/ RetryWsClose
  \/ ReconnectTimerFires
  \/ FallbackCheck
  \/ FetchDone

SpecRetry == Init /\ [][NextRetry]_vars

(***************************************************************************)
(* The accessory running on its own: the constructor's connect, the        *)
(* socket events, frames, the reconnect timer, the clock and the fallback  *)
(* check with its snapshot requests; nobody else calls the client.         *)
(***************************************************************************)
NextPush ==
  \/ LookupDone
  \/ WsOpen
  \/ WsMessage
  \/ WsError
  \/ WsClose
  \/ ReconnectTimerFires
  \/ FallbackCheck
  \/ FetchDone
  \/ Tick

SpecPush == Init /\ [][NextPush]_vars

(***************************************************************************)
(* The accessory with its own timers and its destroy, as the only caller   *)
(* of the client; no frame arrives and the clock stands still.             *)
(***************************************************************************)
\* the one-off fallback check scheduled at start fires
InitialFallbackCheck ==
  /\ initialCheck
  /\ Commit(fallbackCheck([W EXCEPT !.initialCheck = FALSE], now))

\* the update timer fires and updatePosition runs
UpdatePosition ==
  /\ updateTimer = "live"
  /\ \E threw \in BOOLEAN : Commit(updatePosition(W, threw))

Destroy ==
  /\ weatherFallbackTimer = "live"
  /\ Commit(destroy(W))

NextAccessory ==
  \/ Destroy
  \/ UpdatePosition
  \/ InitialFallbackCheck
  \/ FallbackCheck
  \/ FetchDone
  \/ LookupDone
  \/ WsOpen
  \/ RetryWsError
  \/ RetryWsClose
  \/ ReconnectTimerFires

SpecAccessory == Init /\ [][NextAccessory]_vars

(***************************************************************************)
(* The observation model on its own: any payload is handed to the          *)
(* constructor, its accessors are read, and the accessory writes it.       *)
(***************************************************************************)
InitObs ==
  /\ InitConnection
  /\ data \in Payloads
  /\ metrics = <<>>

\* every accessor of new Observations(data) is read
Normalize ==
  /\ metrics = <<>>
  /\ metrics' = <<DerivedMetrics(data)>>
  /\ UNCHANGED <<ws, isConnecting, reconnectTimer, timers, reconnectInterval,
                 consecutiveFailures, deviceId, readyState, errorPending,
                 lookups, fetches, lastWebSocketUpdate, updateTimer,
                 weatherFallbackTimer, initialCheck, data, now>>

Sources == {"websocket", "api"}

\* the accessory is handed the observation by either source
UpdateWeatherData ==
  \E source \in Sources :
    /\ IsNumber(lux(data))
    /\ Commit(updateWeatherData(W, data, source, now))

NextObs ==
  \/ Normalize
  \/ UpdateWeatherData

SpecObs == InitObs /\ [][NextObs]_vars

(***************************************************************************)
(* The client left to itself while every attempt fails: no caller, no      *)
(* 'open'.  Every callback that is due runs eventually; the clock moves as *)
(* it likes.                                                               *)
(***************************************************************************)
AutoCap == maxRetries + 2 * MaxSockets

AutoWsError == WsErrorUpTo(AutoCap)

AutoWsClose == WsCloseUpTo(AutoCap)

NextAuto ==
  \/ LookupDone
  \/ AutoWsError
  \/ AutoWsClose
  \/ ReconnectTimerFires
  \/ Tick

SpecAuto ==
  /\ Init
  /\ [][NextAuto]_vars
  /\ WF_vars(LookupDone)
  /\ WF_vars(AutoWsError)
  /\ WF_vars(AutoWsClose)
  /\ WF_vars(ReconnectTimerFires)

(***************************************************************************)
(* Properties.  A handler is a function of the state, so what a callback   *)
(* would do in a reachable state is read off by applying it there.         *)
(***************************************************************************)
\* the fields of the program, without what the handler reported
StateOf(w) ==
  <<w.ws, w.isConnecting, w.reconnectTimer, w.timers, w.reconnectInterval,
    w.consecutiveFailures, w.deviceId, w.readyState, w.errorPending,
    w.lookups, w.fetches, w.lastWebSocketUpdate, w.updateTimer,
    w.weatherFallbackTimer, w.initialCheck>>

\* the handler ran within the bounds, reported nothing and changed nothing
NoOp(r, w) == r.ok /\ r.out = <<>> /\ StateOf(r) = StateOf(w)

\* the spec's states of the client, read from the program's own fields
Listening == ws # 0 /\ readyState[ws] = "OPEN"
Connecting == isConnecting
Resolving == Total(lookups) > 0 /\ ~isConnecting /\ ~Listening
SomeSocketOpen == \E s \in Sockets : readyState[s] = "OPEN"
InFlight == {s \in Sockets : readyState[s] \in {"CONNECTING", "OPEN"}}

\* C1: when scheduleReconnect takes the failure counter to the retry
\* ceiling (10), it arms no reconnect timer and emits exactly one error
\* event to the listeners.
C1_FatalErrorOnceAtCeiling ==
  (consecutiveFailures = maxRetries - 1 /\ \E s \in Sockets : CanError(s) \/ CanClose(s))
    => LET r == scheduleReconnect(W)
       IN r.timers = 0 /\ Count(r.out, "error") = 1

\* C2: from disconnect() until the next transport is created by an explicit
\* connect, no reconnect timer is pending.  disconnect() is the only
\* assignment of undefined to ws once a device id is cached, and a
\* connectWebSocket that passes its guard then assigns ws before it
\* returns, so "ws undefined with a device id cached" is that interval.
C2_NoReconnectAfterDisconnect ==
  (ws = 0 /\ deviceId # 0) => timers = 0

\* C3: at most one transport created by the client is connecting or open.
C3_OneAttemptInFlight == Cardinality(InFlight) <= 1

C5_ReconnectWhileListening ==
  Listening
    => LET r == reconnectIfNeeded(W, "manual")
           r2 == reconnectIfNeeded([r EXCEPT !.out = <<>>], "manual")
       IN /\ r.ok
          /\ r.out = <<[e |-> "return_true", arg |-> 0]>>
          /\ StateOf(r) = StateOf(W)
          /\ r2.out = r.out
          /\ StateOf(r2) = StateOf(r)

\* C5 witness: the client is Listening while a reconnect timer of an
\* earlier failure is still armed, and reconnectIfNeeded returns true there
C5_Witness ==
  /\ Listening
  /\ consecutiveFailures > 0
  /\ timers > 0
  /\ Did(reconnectIfNeeded(W, "manual").out, "return_true")

\* C6: reconnectIfNeeded called while a connection attempt is in progress
\* (Resolving or Connecting) returns false and starts no lookup and no
\* transport.
C6_ReconnectWhileInProgress ==
  (Resolving \/ (Connecting /\ ~Listening))
    => LET r == reconnectIfNeeded(W, "manual")
       IN r.ok => /\ r.out = <<[e |-> "return_false", arg |-> 0]>>
                  /\ StateOf(r) = StateOf(W)

\* an observation frame that carries an obs array for another device than
\* the bound one
Foreign(f) ==
  /\ f.parse
  /\ f.type \in {"obs_st", "obs_sky"}
  /\ f.obs # "none"
  /\ f.device_id # deviceId

\* C7: an observation frame for another device than the bound one emits no
\* observation event, does not stamp lastWebSocketUpdate and changes no
\* field of the client.
C7_ForeignFrameDropped ==
  \A f \in Frames :
    (SomeSocketOpen /\ Foreign(f)) => NoOp(handleWebSocketMessage(W, f, now), W)

\* C7 witness: a socket is open, the device is bound, the last stamp is
\* older than now, and a frame of type obs_st with an obs record for
\* another device is dropped
C7_Witness ==
  /\ SomeSocketOpen
  /\ deviceId \in StationDevices
  /\ lastWebSocketUpdate # now
  /\ \E f \in Frames :
       /\ Foreign(f) /\ f.type = "obs_st" /\ f.obs = "rec" /\ f.device_id \in ForeignDevices
       /\ NoOp(handleWebSocketMessage(W, f, now), W)

\* a frame the handler takes for an observation of the bound device
Accepted(f) ==
  /\ f.parse
  /\ f.type = "obs_st"
  /\ f.obs # "none"
  /\ f.device_id = deviceId

C9_ObsSkyAsObsSt ==
  \A f \in Frames :
    (SomeSocketOpen /\ f.parse /\ f.type = "obs_sky" /\ f.obs = "rec" /\ f.device_id = deviceId)
      => LET r == handleWebSocketMessage(W, f, now)
             r2 == handleWebSocketMessage(W, [f EXCEPT !.type = "obs_st"], now)
         IN /\ Did(r.out, "observation")
            /\ r.out = r2.out
            /\ StateOf(r) = StateOf(r2)

\* C10: a fallback check that runs while the client is connected and the
\* last push observation is at most five minutes old requests no snapshot,
\* calls no reconnect and writes no characteristic.
C10_FreshFallbackIsNoOp ==
  (Listening /\ now - lastWebSocketUpdate <= StaleWindow)
    => NoOp(fallbackCheck(W, now), W)

\* C10 witness: connected, and the last push observation is exactly five
\* minutes old
C10_Witness ==
  /\ Listening
  /\ lastWebSocketUpdate > 0
  /\ now - lastWebSocketUpdate = StaleWindow
  /\ NoOp(fallbackCheck(W, now), W)

\* nothing of the client is pending: no lookup, no transport that has not
\* closed for good, no reconnect timer
Quiescent ==
  /\ timers = 0
  /\ Total(lookups) = 0
  /\ \A s \in Sockets : readyState[s] = "CLOSED"

\* C17: when every connection attempt fails and nobody calls the client,
\* it eventually has no reconnect timer pending and no attempt in flight,
\* and stays so.
C17_ReconnectionStops == <>[]Quiescent

\* C17 witness: the client has come to rest at the retry ceiling
C17_Witness == Quiescent /\ consecutiveFailures >= maxRetries

\* the handler's output with what it had reported before removed
Fresh(w) == [w EXCEPT !.out = <<>>]

\* C11: a fallback check that runs while the client is not connected, or
\* while the last push observation is older than five minutes, requests a
\* snapshot (at once, or when the device lookup of its reconnect has
\* settled); it calls reconnectIfNeeded only when the client is not
\* connected; and it closes no transport and leaves every open transport
\* open and in place.
C11_StaleFallbackFetches ==
  /\ (~Listening \/ now - lastWebSocketUpdate > StaleWindow)
       => LET r == fallbackCheck(W, now)
          IN r.ok =>
               /\ Did(r.out, "fetch") \/ r.lookups["fallback"] = lookups["fallback"] + 1
               /\ ~Did(r.out, "ws_close")
               /\ \A s \in Sockets : readyState[s] = "OPEN" => r.readyState[s] = "OPEN"
               /\ Listening =>
                    /\ r.out = <<[e |-> "fetch", arg |-> 0]>>
                    /\ StateOf(r) = StateOf([W EXCEPT !.fetches = @ + 1])
  /\ \A d \in {0} \cup StationDevices :
       lookups["fallback"] > 0
         => LET r == resumeConnect(W, "fallback", d)
            IN r.ok => Did(r.out, "fetch")

\* C11 witness: the client is connected, the last push observation is older
\* than five minutes, and the check requests a snapshot
C11_Witness ==
  /\ Listening
  /\ lastWebSocketUpdate > 0
  /\ now - lastWebSocketUpdate > StaleWindow
  /\ Did(fallbackCheck(W, now).out, "fetch")

\* the light level on display after the writes reported in o
Displayed(o) ==
  LET I == {i \in 1..Len(o) : o[i].e = "updateCharacteristic"}
      last == CHOOSE i \in I : \A j \in I : j <= i
  IN o[last].arg

\* C12: when a push observation arrives while a snapshot request is in
\* flight, the snapshot's result is not written over the pushed value.
C12_SnapshotNeverOverwritesPush ==
  \A f \in Frames, v \in LuxValues :
    (fetches > 0 /\ SomeSocketOpen /\ Accepted(f))
      => LET pushed == handleWebSocketMessage(W, f, now)
             after == fetchDone(pushed, TRUE, v, now)
         IN Displayed(after.out) = Displayed(pushed.out)

\* the delays of the reconnect timers set in o
Scheduled(o) == {o[i].arg : i \in {j \in 1..Len(o) : o[j].e = "set_timer"}}

\* C13: for every failure count n in 0..10 the delay before jitter for n is
\* at most the delay for n + 1, and no delay exceeds maxReconnectInterval;
\* the delay of the timer that scheduleReconnect sets is this delay for the
\* incremented counter.
C13_BackoffMonotoneCapped ==
  /\ \A n \in 0..maxRetries :
       /\ baseDelay(reconnectInterval, n) <= baseDelay(reconnectInterval, n + 1)
       /\ baseDelay(reconnectInterval, n) <= (maxReconnectInterval \div MsPerSecond) * DelayUnit
       /\ baseDelay(reconnectInterval, n + 1) <= (maxReconnectInterval \div MsPerSecond) * DelayUnit
  /\ ((\E s \in Sockets : CanError(s) \/ CanClose(s)) /\ consecutiveFailures + 1 < maxRetries)
       => Scheduled(scheduleReconnect(W).out)
            = {baseDelay(reconnectInterval, consecutiveFailures + 1)}

\* C13 witness: a failure is about to take the counter to 6, the first
\* count whose delay is cut to the ceiling, and the timer is set with it
C13_Witness ==
  /\ consecutiveFailures = 5
  /\ \E s \in Sockets : CanClose(s)
  /\ Scheduled(scheduleReconnect(W).out) = {(maxReconnectInterval \div MsPerSecond) * DelayUnit}
  /\ baseDelay(reconnectInterval, 5) < baseDelay(reconnectInterval, 6)

\* C14: the reconnect delay scheduled for an 'error' that reports a
\* rate-limit response is larger than the delay an ordinary transport error
\* gets at the same failure count.
C14_RateLimitFloor ==
  \A s \in Sockets :
    (CanError(s) /\ consecutiveFailures + 1 < maxRetries)
      => LET limited == Scheduled(onError(W, s, now, "rate_limit").out)
             ordinary == Scheduled(onError(W, s, now, "transport").out)
         IN /\ limited # {}
            /\ \A d \in limited, e \in ordinary : d > e

\* C15: when the device lookup of a connection attempt fails, the failure
\* counter is incremented and, below the retry ceiling, a reconnect timer
\* is set.
C15_ResolutionFailureRetried ==
  \A c \in Callers :
    lookups[c] > 0
      => LET r == resumeConnect(W, c, 0)
         IN r.ok => /\ r.consecutiveFailures = consecutiveFailures + 1
                    /\ r.consecutiveFailures < maxRetries => Did(r.out, "set_timer")

\* C16: once the retry ceiling is reached and nothing is in progress, a
\* call of connectWebSocket creates a new transport; when that transport
\* opens the failure counter is 0; and when it then closes, a reconnect
\* timer is set with the counter at 1.
C16_ConnectRecoversFromCeiling ==
  (consecutiveFailures >= maxRetries /\ ~Connecting /\ ~Listening)
    => LET r == connectWebSocket(W, "setup")
       IN r.ok =>
            /\ Did(r.out, "new_socket")
            /\ r.readyState[r.ws] = "CONNECTING"
            /\ LET o == onOpen(Fresh(r), r.ws, now)
               IN o.ok =>
                    /\ o.consecutiveFailures = 0
                    /\ o.readyState[o.ws] = "OPEN"
                    /\ LET c == onClose(Fresh(o), o.ws, now)
                       IN /\ c.consecutiveFailures = 1
                          /\ c.timers = 1
                          /\ Scheduled(c.out) = {baseDelay(InitialReconnectInterval, 1)}

\* C16 witness: the ceiling is reached, no timer is armed, and an explicit
\* connect followed by 'open' is within the bounds
C16_Witness ==
  /\ consecutiveFailures >= maxRetries
  /\ timers = 0
  /\ ~Connecting
  /\ ~Listening
  /\ LET r == connectWebSocket(W, "setup")
     IN /\ r.ok
        /\ Did(r.out, "new_socket")
        /\ onOpen(Fresh(r), r.ws, now).ok

\* C18: once destroy has run, no timer of the accessory or of its client is
\* pending: not the one-off fallback check, not a reconnect timer, not the
\* update timer.
C18_NoTimerAfterDestroy ==
  weatherFallbackTimer = "dead"
    => /\ ~initialCheck
       /\ timers = 0
       /\ updateTimer = "dead"

\* C19: until destroy, whatever the state of weather ingestion, the next
\* updatePosition run is scheduled, and a run schedules the next one
\* whether or not the calculation failed.
C19_PositionUpdatesRecur ==
  weatherFallbackTimer = "live"
    => /\ updateTimer = "live"
       /\ \A threw \in BOOLEAN :
            LET r == updatePosition(W, threw)
            IN /\ r.updateTimer = "live"
               /\ Did(r.out, "set_update_timer")

\* C19 witness: the client has given up at the retry ceiling and a snapshot
\* request is open, and updatePosition still schedules its next run
C19_Witness ==
  /\ weatherFallbackTimer = "live"
  /\ consecutiveFailures >= maxRetries
  /\ timers = 0
  /\ ~Listening
  /\ updateTimer = "live"
  /\ updatePosition(W, TRUE).updateTimer = "live"

\* C20: a snapshot request that fails is logged by its caller and not
\* repeated: the failure writes no characteristic, requests nothing and
\* changes nothing but the request's end; and a fallback check, with the
\* continuation after its reconnect, requests at most one snapshot.
C20_FailedFetchNotRetried ==
  /\ fetches > 0
       => LET r == fetchDone(W, FALSE, 0, now)
          IN /\ r.out = <<[e |-> "log_fetch_failed", arg |-> 0]>>
             /\ StateOf(r) = StateOf([W EXCEPT !.fetches = @ - 1])
  /\ Count(fallbackCheck(W, now).out, "fetch") <= 1
  /\ \A c \in Callers, d \in {0} \cup StationDevices :
       lookups[c] > 0 => Count(resumeConnect(W, c, d).out, "fetch") <= 1

\* C20 witness: a snapshot requested by a fallback check is in flight while
\* the client is not connected, and its failure leaves no request open
C20_Witness ==
  /\ fetches > 0
  /\ ~Listening
  /\ consecutiveFailures > 0
  /\ fetchDone(W, FALSE, 0, now).fetches = fetches - 1
  /\ ~Did(fetchDone(W, FALSE, 0, now).out, "fetch")

\* C21: whatever number the brightness of the payload is, negative ones
\* included, the value updateWeatherData writes to CurrentAmbientLightLevel
\* lies between 0.0001 and 100000 lux.
C21_WrittenLuxInBounds ==
  \A source \in Sources :
    IsNumber(lux(data))
      => LET l == Displayed(updateWeatherData(W, data, source, now).out)
         IN LuxFloor <= l /\ l <= LuxCeiling

\* clamp(round((voltage - 2.4) / 1.2 * 100), 0, 100) for voltage v in 0.001 V
ClampedRoundedLevel(v) == Max(0, Min(100, MathRound((v - minVoltage) * 100)))

\* C22: for every payload batteryLevel is an integer from 0 to 100, equal to
\* clamp(round((voltage - 2.4) / 1.2 * 100), 0, 100), and isLowBattery is
\* true exactly when batteryLevel is below 20.
C22_BatteryLevelClamped ==
  metrics # <<>>
    => LET m == metrics[1]
       IN /\ IsNumber(m.batteryLevel)
          /\ m.batteryLevel.v \in 0..100
          /\ IsNumber(m.batteryVoltage)
          /\ m.batteryLevel.v = ClampedRoundedLevel(m.batteryVoltage.v)
          /\ m.isLowBattery = (m.batteryLevel.v < 20)

\* the snapshot that encodes the values of o as named fields
Snapshot(o) == [o EXCEPT !.kind = "http", !.len = RecordLength]

\* the metrics read from the fields both payload shapes carry
Shared(m) ==
  <<m.airTemperature, m.lux, m.humidity, m.pressure, m.windSpeed,
    m.windDirection, m.uvIndex, m.solarRadiation>>

\* a stream record that carries every field a snapshot has
CarriesShared(o) == hasWsObservation(o) /\ o.len >= 12

\* C23 as stated: a stream record and the snapshot encoding the same values
\* of the shared fields have the same derived metrics, all of them.
C23_SameMetricsForBothShapes ==
  (metrics # <<>> /\ CarriesShared(data))
    => metrics[1] = DerivedMetrics(Snapshot(data))

\* C23, amended: a stream record and the snapshot encoding the same values
\* of the shared fields have the same airTemperature, lux, humidity,
\* pressure, windSpeed, windDirection, uvIndex and solarRadiation.
C23_SameSharedMetrics ==
  (metrics # <<>> /\ CarriesShared(data))
    => Shared(metrics[1]) = Shared(DerivedMetrics(Snapshot(data)))

\* C23 witness: a stream record without battery voltage has been
\* normalised, its temperature -1.235 rounded to -1.23, and its battery
\* level differs from the snapshot's
C23_Witness ==
  /\ metrics # <<>>
  /\ CarriesShared(data)
  /\ data.len < RecordLength
  /\ data.temp = -1235
  /\ metrics[1].airTemperature = Num(-123)
  /\ metrics[1].batteryLevel # DerivedMetrics(Snapshot(data)).batteryLevel

\* the numeric metrics of m
Numbers(m) ==
  {m.airTemperature, m.lux, m.humidity, m.pressure, m.uvIndex,
   m.solarRadiation, m.windSpeed, m.windDirection, m.windGust,
   m.rainAccumulated, m.precipitationType, m.lightningDistance,
   m.lightningCount, m.batteryVoltage, m.batteryLevel}

\* position i of a stream record, or the named field of a snapshot, is missing
Missing(o, i) ==
  \/ o.obs = "empty"
  \/ hasObservation(o) /\ o.len = 0
  \/ hasWsObservation(o) /\ i >= o.len

\* C24: for every payload (obs empty, first element {} or a stream record
\* shorter than 17 positions included) every numeric metric is a number,
\* and a missing temperature, brightness, humidity, pressure, wind or
\* battery voltage reads as 20, 0.0001, 50, 1013.25, 0 or 3.3.
C24_AlwaysPopulated ==
  metrics # <<>>
    => LET m == metrics[1]
       IN /\ \A x \in Numbers(m) : IsNumber(x)
          /\ Missing(data, 7) => m.airTemperature = Num(DefaultTemperature)
          /\ Missing(data, 9) => m.lux = Num(LuxFloor)
          /\ Missing(data, 8) => m.humidity = Num(DefaultHumidity)
          /\ Missing(data, 6) => m.pressure = Num(DefaultPressure)
          /\ Missing(data, 2) => m.windSpeed = Num(0)
          /\ Missing(data, 16) => m.batteryVoltage = Num(DefaultVoltage)

\* the client's own fields: connection state, failure counter and backoff
ClientState(w) ==
  <<w.ws, w.isConnecting, w.reconnectTimer, w.timers, w.reconnectInterval,
    w.consecutiveFailures, w.deviceId>>

\* what a callback lets the outside see or schedules
Signals == {"connected", "disconnected", "error", "observation",
            "listen_start", "listen_stop", "set_timer", "new_socket", "lookup"}

Silent(o) == \A i \in 1..Len(o) : o[i].e \notin Signals

\* C25: after disconnect() (ws undefined, device id cached) the 'error' and
\* 'close' callbacks of a transport that disconnect() closed while it was
\* connecting change no field of the client, emit no event, send nothing
\* and schedule no reconnect.
C25_SupersededCallbacksIgnored ==
  \A s \in Sockets :
    (ws = 0 /\ deviceId # 0)
      => /\ errorPending[s]
            => LET r == onError(W, s, now, "transport")
               IN ClientState(r) = ClientState(W) /\ Silent(r.out)
         /\ CanClose(s)
            => LET r == onClose(W, s, now)
               IN ClientState(r) = ClientState(W) /\ Silent(r.out)

\* the listen_start messages sent in o, by the socket they were sent on
ListenStarts(o) == {i \in 1..Len(o) : o[i].e = "listen_start"}

\* C26: when a transport opens, the client is connected afterwards, the
\* failure counter is 0, the interval has its initial value, and exactly
\* one listen_start is sent, on the transport that opened.
C26_OpenStartsListening ==
  \A s \in Sockets :
    readyState[s] = "CONNECTING"
      => LET r == onOpen(W, s, now)
         IN r.ok =>
              /\ isConnected(r)
              /\ r.consecutiveFailures = 0
              /\ r.reconnectInterval = InitialReconnectInterval
              /\ Cardinality(ListenStarts(r.out)) = 1
              /\ \A i \in ListenStarts(r.out) : r.out[i].arg = s

\* C27: a connection attempt that fails with an 'error' event followed by
\* the 'close' event of the same transport adds one to consecutiveFailures.
C27_FailureCountedOnce ==
  \A s \in Sockets :
    (readyState[s] = "CONNECTING" /\ ws = s)
      => LET e == onError(W, s, now, "transport")
             c == onClose(Fresh(e), s, now)
         IN c.consecutiveFailures = consecutiveFailures + 1

\* C28: no step decreases consecutiveFailures or changes reconnectInterval,
\* except the 'open' callback of a transport, which sets the counter to 0
\* and the interval to its initial value.
C28_OnlyOpenResets ==
  [][ \/ /\ consecutiveFailures' >= consecutiveFailures
         /\ reconnectInterval' = reconnectInterval
      \/ /\ consecutiveFailures' = 0
         /\ reconnectInterval' = InitialReconnectInterval
         /\ \E s \in Sockets : readyState[s] = "CONNECTING" /\ readyState'[s] = "OPEN"
    ]_vars

\* C28 witness: failures have been counted, a transport is connecting, and
\* its 'open' callback resets the counter; disconnect in the same state
\* keeps it
C28_Witness ==
  /\ consecutiveFailures > 1
  /\ \E s \in Sockets :
       /\ readyState[s] = "CONNECTING"
       /\ onOpen(W, s, now).ok
       /\ onOpen(W, s, now).consecutiveFailures = 0
  /\ disconnect(W).consecutiveFailures = consecutiveFailures

\* C29: a frame that JSON.parse rejects is logged and changes nothing: no
\* field of the client or of the accessory, no event, no message sent, no
\* timer.
C29_UnparseableFrameIgnored ==
  SomeSocketOpen
    => LET r == handleWebSocketMessage(W, NoFrame, now)
       IN /\ r.ok
          /\ r.out = <<[e |-> "log_parse_error", arg |-> 0]>>
          /\ StateOf(r) = StateOf(W)

\* C29 witness: a socket is open, a failure is counted and a reconnect
\* timer is armed when the unparseable frame arrives
C29_Witness ==
  /\ SomeSocketOpen
  /\ consecutiveFailures > 0
  /\ timers > 0
  /\ NoFrame \in Frames
  /\ Did(handleWebSocketMessage(W, NoFrame, now).out, "log_parse_error")

\* C30: of two 'close' events in a row without an 'open' between them (the
\* reconnect timer of the first fires, the new transport fails and closes),
\* the second schedules twice the delay of the first, or
\* maxReconnectInterval when twice the delay exceeds it.
C30_DelayDoubles ==
  \A s \in Sockets :
    (CanClose(s) /\ timers = 0 /\ consecutiveFailures + 3 < maxRetries)
      => LET first == onClose(W, s, now)
             fired == [Fresh(first) EXCEPT !.timers = 0, !.reconnectTimer = "dead"]
             again == connectWebSocket(fired, "timer")
             failed == onError(Fresh(again), again.ws, now, "transport")
             second == onClose(Fresh(failed), again.ws, now)
         IN (again.ok /\ Did(again.out, "new_socket"))
              => \A d1 \in Scheduled(first.out), d2 \in Scheduled(second.out) :
                   d2 = Min(2 * d1, (maxReconnectInterval \div MsPerSecond) * DelayUnit)

C32_BindingCached ==
  deviceId # 0
    => /\ \A c \in Callers : ~Did(connectWebSocket(W, c).out, "lookup")
       /\ \A c \in Callers, d \in {0} \cup StationDevices \cup ReplacedDevices :
            lookups[c] > 0
              => LET r == resumeConnect(W, c, d)
                 IN r.ok => r.deviceId = deviceId

\* C33: lastWebSocketUpdate is left unchanged by a snapshot result (good or
\* failed, of the initial fetch or of the fallback check), by the fallback
\* check itself, by the 'open', 'error' and 'close' callbacks, by connect,
\* reconnectIfNeeded and disconnect, by a settled lookup, and by every
\* frame that is not accepted as an observation.
C33_OnlyPushStampsFreshness ==
  LET Same(r) == r.ok => r.lastWebSocketUpdate = lastWebSocketUpdate
  IN /\ fetches > 0
          => \A good \in BOOLEAN, v \in LuxValues : Same(fetchDone(W, good, v, now))
     /\ Same(fallbackCheck(W, now))
     /\ Same(disconnect(W))
     /\ \A c \in Callers :
          /\ Same(connectWebSocket(W, c))
          /\ Same(reconnectIfNeeded(W, c))
          /\ lookups[c] > 0
               => \A d \in {0} \cup StationDevices : Same(resumeConnect(W, c, d))
     /\ \A s \in Sockets :
          /\ readyState[s] = "CONNECTING" => Same(onOpen(W, s, now))
          /\ CanError(s) => \A err \in ErrorKinds : Same(onError(W, s, now, err))
          /\ CanClose(s) => Same(onClose(W, s, now))
     /\ \A f \in Frames :
          (SomeSocketOpen /\ ~Accepted(f)) => Same(handleWebSocketMessage(W, f, now))

\* C33 witness: a push observation stamped the timestamp earlier, and a
\* good snapshot result is applied now, at a later time
C33_Witness ==
  /\ lastWebSocketUpdate > 0
  /\ lastWebSocketUpdate < now
  /\ fetches > 0
  /\ Did(fetchDone(W, TRUE, 90000000, now).out, "updateCharacteristic")

C35_ListenStopOnOwnTransport ==
  LET StopsOnlyOn(o, s) ==
        \A i \in 1..Len(o) : o[i].e = "listen_stop" => o[i].arg = s
  IN /\ \A s \in Sockets :
          /\ CanError(s) => StopsOnlyOn(onError(W, s, now, "transport").out, s)
          /\ CanClose(s) => StopsOnlyOn(onClose(W, s, now).out, s)
     /\ StopsOnlyOn(disconnect(W).out, ws)

\* C36: at most one reconnect timeout of the client is armed at any time.
C36_OneReconnectTimer == timers <= 1

\* C36 witness: the 'error' callback of a failed transport has armed the
\* timer, and the 'close' callback of the same transport sets a timer again
C36_Witness ==
  /\ timers = 1
  /\ \E s \in Sockets :
       /\ readyState[s] = "CLOSING"
       /\ CanClose(s)
       /\ Did(onClose(W, s, now).out, "set_timer")
       /\ onClose(W, s, now).timers = 1

\* C37: consecutiveFailures is never above maxRetries.
C37_CounterWithinCeiling == consecutiveFailures \in 0..maxRetries

\* C38: while a reconnect timeout is armed a device id is cached, and the
\* connectWebSocket the timeout calls starts no metadata lookup and does
\* not throw.
C38_TimerImpliesBinding ==
  timers > 0
    => /\ deviceId # 0
       /\ LET r == connectWebSocket(W, "timer")
          IN ~Did(r.out, "lookup") /\ ~Did(r.out, "throw")

\* C38 witness: the timeout is armed and its connectWebSocket creates a
\* transport
C38_Witness ==
  /\ timers > 0
  /\ Did(connectWebSocket(W, "timer").out, "new_socket")

\* C39: a transport that fails before it opens ('error', then 'close')
\* emits no 'disconnected' event.
C39_NoDisconnectedBeforeConnected ==
  \A s \in Sockets :
    readyState[s] = "CONNECTING"
      => LET failed == onError(W, s, now, "transport")
             closed == onClose(Fresh(failed), s, now)
         IN ~Did(failed.out, "disconnected") /\ ~Did(closed.out, "disconnected")

====
